---- MODULE Spec2Model ----
(***************************************************************************)
(* A model of two parts of the growthbook repository:                      *)
(*                                                                         *)
(*   - the REST handler updateExperiment (back end), as a set of           *)
(*     concurrently running requests, each advancing from one await to     *)
(*     the next;                                                           *)
(*   - the front-end telemetry service track.ts: track, dataWareHouseTrack,*)
(*     the cookie backed identifiers and parseSnapshotDimension.           *)
(*                                                                         *)
(* Three specifications share the variables: Spec (the handler),           *)
(* SpecTrack (the telemetry service) and SpecDim (parseSnapshotDimension).  *)
(***************************************************************************)
EXTENDS Integers, Sequences, FiniteSets, TLC

VARIABLES
    \* ---- back end: the collections the handler reads and writes
    experiments,        \* the experiments collection: id -> document
    datasources,        \* the datasources collection: id -> document
    \* ---- back end: one record of control state per request
    pc,                 \* the await a request is suspended at
    req,                \* req.params.id and req.body
    experiment,         \* the handler's local `experiment`
    updatedExperiment,  \* the handler's local `updatedExperiment`
    result,             \* "pending", "ok" or the message of the error thrown
    trace,              \* history: the checks the request has evaluated
    updateCalls,        \* history: calls of updateExperimentToDb
    wrote,              \* history: a step of the request changed the collection
    dupAtStart,         \* history: body.trackingKey was another experiment's at arrival
    dupAtLookup,        \* history: ... at the time of getExperimentByTrackingKey
    started,            \* requests received so far
    \* ---- front end: environment (./env, ./UserContext) and the browser
    env,                \* isCloud, isTelemetryEnabled, dataWarehouseUrl, ...
    now,                \* the browser's clock: [day, ms]
    advances,           \* history: how often the clock has been advanced
    cookies,            \* the cookie jar: name -> [present, value, expires]
    pageIds,            \* the module level pageIds mapping
    uuids,              \* how many identifiers uuidv4 has generated
    jitsu,              \* whether the jitsu client has been created
    last,               \* history: what the last call of track did
    calls,              \* history: calls of track so far
    devEpoch,           \* history: the calls since the device cookie was last absent
    sessPrev,           \* history: the previous call's session id and time
    \* ---- parseSnapshotDimension
    dimension,          \* the argument
    parsed              \* the value returned

backendVars == <<experiments, datasources, pc, req, experiment,
                 updatedExperiment, result, trace, updateCalls, wrote,
                 dupAtStart, dupAtLookup, started>>
trackVars == <<env, now, advances, cookies, pageIds, uuids, jitsu, last, calls,
               devEpoch, sessPrev>>
dimVars == <<dimension, parsed>>
vars == <<backendVars, trackVars, dimVars>>

\* JavaScript's null / undefined, as far as the code tells them apart
Null == "null"
Undefined == "undefined"

(***************************************************************************)
(*                       PART 1: updateExperiment                          *)
(***************************************************************************)

\* bound: the number of requests the server receives in a run
MaxRequests == 2

\* the handler invocations that can be in flight at the same time
Requests == {1, 2}

ExperimentIds == {"e1", "e2"}
ParamIds == ExperimentIds \cup {"e9"}           \* e9 is no experiment
BodyTrackingKeys == {Null, "k1", "k3"}
BodyAssignmentQueryIds == {Null, "q0", "q1"}
BodyProjects == {Null, "p2"}

\* the messages of the errors the handler throws
ErrNoExperiment == "Could not find the experiment to update"
ErrNoProject == "Invalid project"
ErrPermission == "You do not have permission to perform this action"
ErrNoDatasource == "No datasource for this experiment was found."
ErrAssignmentQuery == "Unrecognized assignment query ID"
ErrTrackingKey == "Experiment with tracking key already exists"
ErrUpdate == "Error happened during updating experiment."
Errors == {ErrNoExperiment, ErrNoProject, ErrPermission, ErrNoDatasource,
           ErrAssignmentQuery, ErrTrackingKey, ErrUpdate}

InitExperiments ==
    [e \in ExperimentIds |->
        IF e = "e1"
        THEN [id |-> "e1", trackingKey |-> "k1", exposureQueryId |-> "q1",
              datasource |-> "d1", project |-> "p2"]
        ELSE [id |-> "e2", trackingKey |-> "k2", exposureQueryId |-> "q0",
              datasource |-> "d2", project |-> Null]]

\* d1 has one exposure query; d2, when it exists, has no settings.queries
DatasourceD1 == [id |-> "d1", hasQueries |-> TRUE, exposure |-> {"q1"}]
DatasourceD2 == [id |-> "d2", hasQueries |-> FALSE, exposure |-> {}]
InitDatasources ==
    { [d \in {"d1"} |-> DatasourceD1],
      [d \in {"d1", "d2"} |-> IF d = "d1" THEN DatasourceD1 ELSE DatasourceD2] }

NoRequest == [id |-> Null,
              body |-> [trackingKey |-> Null, assignmentQueryId |-> Null,
                        project |-> Null]]
NoDatasource == [id |-> Null, hasQueries |-> FALSE, exposure |-> {}]
NoExperiment == [id |-> Null, trackingKey |-> Null, exposureQueryId |-> Null,
                 datasource |-> Null, project |-> Null]

\* ---- the data layer (back-end/src/models), as the handler uses it

\* getExperimentById(context, id): the document, or null
getExperimentById(id) ==
    IF id \in DOMAIN experiments THEN experiments[id] ELSE NoExperiment

\* getDataSourceById(context, id): the document, or null
getDataSourceById(id) ==
    IF id \in DOMAIN datasources THEN datasources[id] ELSE NoDatasource

\* getExperimentByTrackingKey(context, key): whether a document is returned.
\* The call is given the key alone, so it cannot leave the updated
\* experiment itself out.
getExperimentByTrackingKey(key) ==
    \E e \in DOMAIN experiments : experiments[e].trackingKey = key

\* updateExperimentApiPayloadToInterface(body, experiment): the fields the
\* body supplies, under the names of the stored document
updateExperimentApiPayloadToInterface(body, exp) ==
    [trackingKey |->
        IF body.trackingKey # Null THEN body.trackingKey ELSE exp.trackingKey,
     exposureQueryId |->
        IF body.assignmentQueryId # Null THEN body.assignmentQueryId
        ELSE exp.exposureQueryId,
     project |-> IF body.project # Null THEN body.project ELSE exp.project,
     set |-> {f \in {"trackingKey", "exposureQueryId", "project"} :
                \/ f = "trackingKey" /\ body.trackingKey # Null
                \/ f = "exposureQueryId" /\ body.assignmentQueryId # Null
                \/ f = "project" /\ body.project # Null}]

\* the document `doc` with the supplied fields of `changes` set
ApplyChanges(doc, changes) ==
    [id |-> doc.id,
     datasource |-> doc.datasource,
     trackingKey |->
        IF "trackingKey" \in changes.set THEN changes.trackingKey
        ELSE doc.trackingKey,
     exposureQueryId |->
        IF "exposureQueryId" \in changes.set THEN changes.exposureQueryId
        ELSE doc.exposureQueryId,
     project |->
        IF "project" \in changes.set THEN changes.project ELSE doc.project]

\* ---- the handler's conditions

\* (mutant) the optional chaining read as "no queries, nothing to check"
UnrecognizedAssignmentQuery_NoQueriesPass(body, exp, ds) ==
    /\ body.assignmentQueryId # Null
    /\ body.assignmentQueryId # exp.exposureQueryId
    /\ ds.hasQueries
    /\ body.assignmentQueryId \notin ds.exposure

\* lines 41-47: the body names an assignment query that is neither the
\* experiment's own nor one of the datasource's exposure queries
UnrecognizedAssignmentQuery(body, exp, ds) ==
    /\ body.assignmentQueryId # Null
    /\ body.assignmentQueryId # exp.exposureQueryId
    /\ ~(ds.hasQueries /\ body.assignmentQueryId \in ds.exposure)

\* lines 54-57: the body names a tracking key other than the experiment's
TrackingKeyChanged(body, exp) ==
    /\ body.trackingKey # Null
    /\ body.trackingKey # exp.trackingKey

\* ---- bookkeeping shared by the steps

Check(name, ok) == [check |-> name, ok |-> ok]

\* the request goes on to its next await
Goto(r, label, tr) ==
    /\ pc' = [pc EXCEPT ![r] = label]
    /\ trace' = [trace EXCEPT ![r] = tr]
    /\ UNCHANGED result

\* the request ends with a thrown error
Throw(r, err, tr) ==
    /\ pc' = [pc EXCEPT ![r] = "done"]
    /\ trace' = [trace EXCEPT ![r] = tr]
    /\ result' = [result EXCEPT ![r] = err]

Observe(r) ==
    wrote' = [wrote EXCEPT ![r] = @ \/ experiments' # experiments]

\* (mutant) the permission error is not thrown
PermissionCheck_NoThrow(r, allowed, tr) ==
    Goto(r, "getDataSourceById", Append(tr, Check("permission", allowed)))

\* lines 29-31 and the call of line 33
PermissionCheck(r, allowed, tr) ==
    IF allowed
    THEN Goto(r, "getDataSourceById", Append(tr, Check("permission", TRUE)))
    ELSE Throw(r, ErrPermission, Append(tr, Check("permission", FALSE)))

\* ---- the steps of a request

\* the framework hands a validated request to the handler (lines 15-19); the
\* request takes the first free slot
StartRequest(r) ==
    /\ pc[r] \in {"idle", "done"}
    /\ \A q \in Requests : q < r => pc[q] \notin {"idle", "done"}
    /\ started < MaxRequests
    /\ \E id \in ParamIds, tk \in BodyTrackingKeys,
          aq \in BodyAssignmentQueryIds, pr \in BodyProjects :
        /\ req' = [req EXCEPT ![r] =
                     [id |-> id,
                      body |-> [trackingKey |-> tk, assignmentQueryId |-> aq,
                                project |-> pr]]]
        /\ dupAtStart' = [dupAtStart EXCEPT ![r] =
                            /\ tk # Null
                            /\ \E e \in DOMAIN experiments :
                                  e # id /\ experiments[e].trackingKey = tk]
    /\ started' = started + 1
    /\ pc' = [pc EXCEPT ![r] = "getExperimentById"]
    /\ experiment' = [experiment EXCEPT ![r] = NoExperiment]
    /\ updatedExperiment' = [updatedExperiment EXCEPT ![r] = NoExperiment]
    /\ result' = [result EXCEPT ![r] = "pending"]
    /\ trace' = [trace EXCEPT ![r] = <<>>]
    /\ updateCalls' = [updateCalls EXCEPT ![r] = 0]
    /\ wrote' = [wrote EXCEPT ![r] = FALSE]
    /\ dupAtLookup' = [dupAtLookup EXCEPT ![r] = FALSE]
    /\ UNCHANGED <<experiments, datasources>>
    /\ UNCHANGED <<trackVars, dimVars>>

\* lines 19-31: getExperimentById resolves
GetExperimentById(r) ==
    /\ pc[r] = "getExperimentById"
    /\ LET exp == getExperimentById(req[r].id)
           tr == Append(trace[r], Check("experiment", exp # NoExperiment))
       IN  /\ experiment' = [experiment EXCEPT ![r] = exp]
           /\ IF exp = NoExperiment
              THEN Throw(r, ErrNoExperiment, tr)
              ELSE IF req[r].body.project # Null
              THEN Goto(r, "ensureProjectsExist", tr)
              ELSE \E allowed \in BOOLEAN : PermissionCheck(r, allowed, tr)
    /\ UNCHANGED <<experiments, datasources, req, updatedExperiment,
                   updateCalls, dupAtStart, dupAtLookup, started>>
    /\ Observe(r)
    /\ UNCHANGED <<trackVars, dimVars>>

\* lines 26-31: ensureProjectsExist resolves or throws. The projects
\* collection belongs to other handlers: whether the project exists when the
\* call is made is free.
EnsureProjectsExist(r) ==
    /\ pc[r] = "ensureProjectsExist"
    /\ \E exists \in BOOLEAN :
         LET tr == Append(trace[r], Check("project", exists))
         IN  IF ~exists
             THEN Throw(r, ErrNoProject, tr)
             ELSE \E allowed \in BOOLEAN : PermissionCheck(r, allowed, tr)
    /\ UNCHANGED <<experiments, datasources, req, experiment,
                   updatedExperiment, updateCalls, dupAtStart, dupAtLookup,
                   started>>
    /\ Observe(r)
    /\ UNCHANGED <<trackVars, dimVars>>

\* lines 33-69: getDataSourceById resolves
GetDataSourceById(r) ==
    /\ pc[r] = "getDataSourceById"
    /\ LET ds == getDataSourceById(experiment[r].datasource)
           body == req[r].body
           tr1 == Append(trace[r], Check("datasource", ds # NoDatasource))
       IN  IF ds = NoDatasource
           THEN Throw(r, ErrNoDatasource, tr1)
           ELSE IF UnrecognizedAssignmentQuery(body, experiment[r], ds)
           THEN Throw(r, ErrAssignmentQuery,
                      Append(tr1, Check("assignmentQuery", FALSE)))
           ELSE IF TrackingKeyChanged(body, experiment[r])
           THEN Goto(r, "getExperimentByTrackingKey",
                     Append(tr1, Check("assignmentQuery", TRUE)))
           ELSE Goto(r, "updateExperimentToDb",
                     Append(Append(tr1, Check("assignmentQuery", TRUE)),
                            Check("trackingKey", TRUE)))
    /\ UNCHANGED <<experiments, datasources, req, experiment,
                   updatedExperiment, updateCalls, dupAtStart, dupAtLookup,
                   started>>
    /\ Observe(r)
    /\ UNCHANGED <<trackVars, dimVars>>

\* (mutant) the experiment found under the key is not looked at
GetExperimentByTrackingKey_Ignored(r) ==
    /\ pc[r] = "getExperimentByTrackingKey"
    /\ Goto(r, "updateExperimentToDb",
            Append(trace[r], Check("trackingKey", TRUE)))
    /\ dupAtLookup' = [dupAtLookup EXCEPT ![r] =
                         \E e \in DOMAIN experiments :
                            /\ e # req[r].id
                            /\ experiments[e].trackingKey = req[r].body.trackingKey]
    /\ UNCHANGED <<experiments, datasources, req, experiment,
                   updatedExperiment, updateCalls, dupAtStart, started>>
    /\ Observe(r)
    /\ UNCHANGED <<trackVars, dimVars>>

\* lines 58-69: getExperimentByTrackingKey resolves
GetExperimentByTrackingKey(r) ==
    /\ pc[r] = "getExperimentByTrackingKey"
    /\ LET existing == getExperimentByTrackingKey(req[r].body.trackingKey)
           tr == Append(trace[r], Check("trackingKey", ~existing))
       IN  IF existing
           THEN Throw(r, ErrTrackingKey, tr)
           ELSE Goto(r, "updateExperimentToDb", tr)
    /\ dupAtLookup' = [dupAtLookup EXCEPT ![r] =
                         \E e \in DOMAIN experiments :
                            /\ e # req[r].id
                            /\ experiments[e].trackingKey = req[r].body.trackingKey]
    /\ UNCHANGED <<experiments, datasources, req, experiment,
                   updatedExperiment, updateCalls, dupAtStart, started>>
    /\ Observe(r)
    /\ UNCHANGED <<trackVars, dimVars>>

\* lines 69-81: updateExperimentToDb resolves, with the updated document or
\* with null
UpdateExperimentToDb(r) ==
    /\ pc[r] = "updateExperimentToDb"
    /\ updateCalls' = [updateCalls EXCEPT ![r] = @ + 1]
    /\ LET changes == updateExperimentApiPayloadToInterface(req[r].body,
                                                            experiment[r])
           id == experiment[r].id
       IN \E updated \in BOOLEAN :
            IF updated
            THEN /\ experiments' = [experiments EXCEPT
                                      ![id] = ApplyChanges(@, changes)]
                 /\ updatedExperiment' = [updatedExperiment EXCEPT
                                      ![r] = ApplyChanges(experiment[r], changes)]
                 /\ Goto(r, "toExperimentApiInterface",
                         Append(trace[r], Check("update", TRUE)))
            ELSE /\ UNCHANGED <<experiments, updatedExperiment>>
                 /\ Throw(r, ErrUpdate, Append(trace[r], Check("update", FALSE)))
    /\ UNCHANGED <<datasources, req, experiment, dupAtStart,
                   dupAtLookup, started>>
    /\ Observe(r)
    /\ UNCHANGED <<trackVars, dimVars>>

\* lines 78-84: toExperimentApiInterface resolves and the handler returns
ToExperimentApiInterface(r) ==
    /\ pc[r] = "toExperimentApiInterface"
    /\ pc' = [pc EXCEPT ![r] = "done"]
    /\ result' = [result EXCEPT ![r] = "ok"]
    /\ UNCHANGED <<experiments, datasources, req, experiment,
                   updatedExperiment, trace, updateCalls, dupAtStart,
                   dupAtLookup, started>>
    /\ Observe(r)
    /\ UNCHANGED <<trackVars, dimVars>>


(***************************************************************************)
(*                  PART 2: track.ts, the telemetry service                *)
(***************************************************************************)

\* bounds: calls of track, and advances of the clock, in a run
MaxCalls == 2
MaxAdvances == 2

\* track.ts:79-80
DEVICE_ID_COOKIE == "gb_device_id"
SESSION_ID_COOKIE == "gb_session_id"
\* track.ts:105 and track.ts:127
DeviceCookieDays == 365
SessionMinutes == 30

MsPerSecond == 1000
MsPerDay == 24 * 60 * 60 * MsPerSecond

\* ---- time: [day, ms], ms the milliseconds into the day

Time(d, ms) == [day |-> d, ms |-> ms]
TimeLT(a, b) == a.day < b.day \/ (a.day = b.day /\ a.ms < b.ms)
AddMs(t, d) ==
    LET total == t.ms + d
    IN  Time(t.day + (total \div MsPerDay), total % MsPerDay)
AddDays(t, d) == Time(t.day + d, t.ms)
\* the time with its milliseconds dropped
WholeSeconds(t) == Time(t.day, t.ms - (t.ms % MsPerSecond))

\* the delays by which the clock advances between two events
Delays == { Time(0, 500),
            Time(0, SessionMinutes * 60 * MsPerSecond - 300),
            Time(DeviceCookieDays, 0) }

\* ---- uuid and md5

\* uuidv4(): the n-th identifier generated; no two are equal
uuidv4(n) == "uuid-" \o ToString(n)

\* md5(s): a digest, different from every identifier in the model
md5(s) == "md5(" \o s \o ")"

\* JavaScript's falsy strings
Falsy(v) == v = Undefined \/ v = ""

\* ---- js-cookie

NoCookie == [present |-> FALSE, value |-> Undefined, expires |-> Time(0, 0)]

\* Cookies.get(name): the value of the cookie if the browser still has it
CookiesGet(jar, name, t) ==
    IF jar[name].present /\ TimeLT(t, jar[name].expires)
    THEN jar[name].value
    ELSE Undefined

\* Cookies.set(name, value, {expires}): the cookie's date has whole seconds
CookiesSet(jar, name, value, expires) ==
    [jar EXCEPT ![name] = [present |-> TRUE, value |-> value,
                           expires |-> WholeSeconds(expires)]]

\* the browser drops the cookies whose time has come
Evict(jar, t) ==
    [n \in DOMAIN jar |-> IF CookiesGet(jar, n, t) = Undefined
                          THEN NoCookie ELSE jar[n]]

\* ---- the identifier manager; each returns the id and the jar it leaves

\* (mutant) the cookie is not read
getOrGenerateDeviceId_AlwaysNew(jar, t, n) ==
    [id |-> uuidv4(n + 1), generated |-> TRUE, uuids |-> n + 1,
     jar |-> CookiesSet(jar, DEVICE_ID_COOKIE, uuidv4(n + 1),
                        AddDays(t, DeviceCookieDays))]

\* track.ts:102-109; n identifiers have been generated before the call
getOrGenerateDeviceId(jar, t, n) ==
    LET got == CookiesGet(jar, DEVICE_ID_COOKIE, t)
        deviceId == IF Falsy(got) THEN uuidv4(n + 1) ELSE got
    IN  [id |-> deviceId, generated |-> Falsy(got),
         uuids |-> IF Falsy(got) THEN n + 1 ELSE n,
         jar |-> CookiesSet(jar, DEVICE_ID_COOKIE, deviceId,
                            AddDays(t, DeviceCookieDays))]

\* track.ts:111-116
getOrGeneratePageId(ids, key, n) ==
    LET fresh == ids[key] = Undefined
        ids2 == IF fresh THEN [ids EXCEPT ![key] = uuidv4(n + 1)] ELSE ids
    IN  [id |-> ids2[key], pageIds |-> ids2,
         uuids |-> IF fresh THEN n + 1 ELSE n]

\* track.ts:118-133: new Date(year, month, date, hours, minutes + 30,
\* seconds) is the time of the call without its milliseconds, 30 minutes on
getOrGenerateSessionId(jar, t, n) ==
    LET got == CookiesGet(jar, SESSION_ID_COOKIE, t)
        sessionId == IF Falsy(got) THEN uuidv4(n + 1) ELSE got
        expires == AddMs(WholeSeconds(t), SessionMinutes * 60 * MsPerSecond)
    IN  [id |-> sessionId, generated |-> Falsy(got),
         uuids |-> IF Falsy(got) THEN n + 1 ELSE n,
         jar |-> CookiesSet(jar, SESSION_ID_COOKIE, sessionId, expires)]

\* ---- the environment of a call (./env, ./UserContext, window)

\* getCurrentUser(): nobody, or a member of an organization
NoUser == [id |-> Undefined, org |-> Undefined, role |-> Undefined,
           effectiveAccountPlan |-> Undefined, orgCreationDate |-> Undefined]
SomeUser == [id |-> "u_123", org |-> "org_456", role |-> "admin",
             effectiveAccountPlan |-> "pro", orgCreationDate |-> "2020-01-01"]
Users == {NoUser, SomeUser}

\* a page that calls track: location.hostname, document.referrer,
\* window.history.state.key and the props the page passes; the second page
\* tries to set a derived field
Pages == { [hostname |-> "localhost", referrer |-> "https://weblens.ai/a",
            key |-> "h1", props |-> [source |-> "experiment-page"]],
           [hostname |-> "gb.corp.example",
            referrer |-> "https://wiki.corp.example/", key |-> "h2",
            props |-> [source |-> "sidebar", user_id |-> "from-caller"]] }
Pathname == "/experiments"

\* hostname.match(/(localhost|127\.0\.0\.1)/i)
IsLocalhost(hostname) == hostname \in {"localhost", "127.0.0.1"}
\* referrer.match(/weblens\.ai/)
IsAllowedReferrer(referrer) == referrer \in {"https://weblens.ai/a"}

Events == {"View Experiment"}
HistoryKeys == {p.key : p \in Pages}
FetchOutcomes == {"ok", "throws", "rejects"}

\* {...a, ...b}
Spread(a, b) ==
    [k \in DOMAIN a \cup DOMAIN b |-> IF k \in DOMAIN b THEN b[k] ELSE a[k]]

\* JSON.stringify of an object: the properties whose value is undefined are
\* left out
JSONstringify(obj) ==
    [k \in {j \in DOMAIN obj : j = "properties_json" \/ obj[j] # Undefined}
        |-> obj[k]]

\* ---- track.ts:152-178
TrackProps(props, user, loc, cloud) ==
    LET host == IF IsLocalhost(loc.hostname) THEN "localhost"
                ELSE IF cloud THEN "cloud" ELSE "self-hosted"
    IN  Spread(props,
          [page_url |-> Pathname,
           page_title |-> "",
           source_ip |-> "",
           url |-> "https:" \o "//" \o host \o Pathname,
           doc_host |-> host,
           doc_search |-> "",
           doc_path |-> Pathname,
           referer |-> IF IsAllowedReferrer(loc.referrer) THEN loc.referrer
                       ELSE "",
           build_sha |-> "sha",
           build_date |-> "date",
           build_version |-> "version",
           account_plan |-> user.effectiveAccountPlan,
           org_creation_date |-> user.orgCreationDate,
           configFile |-> "false",
           role |-> IF ~Falsy(user.id) THEN user.role ELSE "",
           org_hash |-> IF ~Falsy(user.org) THEN md5(user.org) ELSE "",
           user_id_hash |-> IF ~Falsy(user.id) THEN md5(user.id) ELSE "",
           user_id |-> IF cloud THEN user.id ELSE "",
           org |-> IF cloud THEN user.org ELSE ""])

\* track.ts:180-192: the argument of dataWareHouseTrack
WarehouseEvent(event, trackProps, user, deviceId, pageId, sessionId) ==
    [event_name |-> event,
     properties_json |-> JSONstringify(trackProps),
     device_id |-> deviceId,
     page_id |-> pageId,
     session_id |-> sessionId,
     sdk_language |-> "react",
     sdk_version |-> "1.2.0",
     url |-> trackProps.url,
     user_id |-> user.id,
     user_attributes_json |-> "{}"]

NoBody == [event_name |-> Undefined]

\* (mutant) fetch is called outside the try block
dataWareHouseTrack_NoCatch(event, warehouse, fetchOutcome) ==
    IF ~warehouse
    THEN [posted |-> FALSE, threw |-> FALSE, body |-> NoBody]
    ELSE [posted |-> fetchOutcome # "throws",
          threw |-> fetchOutcome = "throws",
          body |-> IF fetchOutcome = "throws" THEN NoBody
                   ELSE JSONstringify(event)]

\* track.ts:83-100: what reaches the network, and whether an exception
\* leaves the function. A fetch that throws is caught; one whose promise
\* rejects has sent its request and nobody awaits it.
dataWareHouseTrack(event, warehouse, fetchOutcome) ==
    IF ~warehouse
    THEN [posted |-> FALSE, threw |-> FALSE, body |-> NoBody]
    ELSE [posted |-> fetchOutcome # "throws",
          threw |-> FALSE,
          body |-> IF fetchOutcome = "throws" THEN NoBody
                   ELSE JSONstringify(event)]

NoCall == [outcome |-> "none", user |-> NoUser, event |-> Undefined,
           fetch |-> Undefined, posted |-> FALSE, post |-> NoBody,
           jitsuCalled |-> FALSE, jitsuEvent |-> Undefined,
           jitsuProps |-> NoBody, device_id |-> Undefined,
           genDevice |-> FALSE, session_id |-> Undefined,
           genSession |-> FALSE, page_id |-> Undefined]

\* ---- track.ts:136-211: one call of track(event, props)
track(event, props, user, loc, key, fetchOutcome) ==
    /\ calls < MaxCalls
    /\ calls' = calls + 1
    /\ IF ~env.browser
       THEN \* line 141: nothing happens during server side rendering
            /\ last' = [NoCall EXCEPT !.outcome = "returned"]
            /\ UNCHANGED <<cookies, pageIds, uuids, jitsu, devEpoch, sessPrev>>
       ELSE \E trackProps \in {TrackProps(props, user, loc, env.cloud)},
               dev \in {getOrGenerateDeviceId(cookies, now, uuids)} :
            \E page \in {getOrGeneratePageId(pageIds, key, dev.uuids)} :
            \E sess \in {getOrGenerateSessionId(dev.jar, now, page.uuids)} :
            \E sent \in {dataWareHouseTrack(
                            WarehouseEvent(event, trackProps, user,
                                           dev.id, page.id, sess.id),
                            env.warehouse, fetchOutcome)} :
            LET toJitsu == ~sent.threw /\ env.telemetry
            IN  /\ cookies' = sess.jar
                /\ uuids' = sess.uuids
                /\ pageIds' = page.pageIds
                /\ jitsu' = (jitsu \/ toJitsu)
                /\ last' = [outcome |-> IF sent.threw THEN "threw"
                                        ELSE "returned",
                            user |-> user,
                            event |-> event,
                            fetch |-> IF env.warehouse THEN fetchOutcome
                                      ELSE Undefined,
                            posted |-> sent.posted,
                            post |-> sent.body,
                            jitsuCalled |-> toJitsu,
                            jitsuEvent |-> IF toJitsu THEN event
                                           ELSE Undefined,
                            jitsuProps |-> IF toJitsu THEN trackProps
                                           ELSE NoBody,
                            device_id |-> dev.id,
                            genDevice |-> dev.generated,
                            session_id |-> sess.id,
                            genSession |-> sess.generated,
                            page_id |-> page.id]
                /\ devEpoch' =
                      IF CookiesGet(cookies, DEVICE_ID_COOKIE, now) = Undefined
                         \/ devEpoch.n = 0
                      THEN [id |-> dev.id, n |-> 1]
                      ELSE [id |-> devEpoch.id, n |-> devEpoch.n + 1]
                /\ sessPrev' = [valid |-> TRUE, id |-> sess.id, at |-> now]
    /\ UNCHANGED <<env, now, advances>>
    /\ UNCHANGED <<backendVars, dimVars>>

Track ==
    \E event \in Events, page \in Pages, user \in Users,
       fetchOutcome \in FetchOutcomes :
        track(event, page.props, user, page, page.key, fetchOutcome)

\* time passes; the browser drops the cookies that expire
Advance ==
    /\ advances < MaxAdvances
    /\ advances' = advances + 1
    /\ \E d \in Delays :
        /\ now' = AddMs(AddDays(now, d.day), d.ms)
        /\ cookies' = Evict(cookies, now')
        /\ devEpoch' = IF cookies'[DEVICE_ID_COOKIE].present THEN devEpoch
                       ELSE [id |-> Undefined, n |-> 0]
    /\ UNCHANGED <<env, pageIds, uuids, jitsu, last, calls, sessPrev>>
    /\ UNCHANGED <<backendVars, dimVars>>

\* the user clears the site's cookies
ClearCookies ==
    /\ \E n \in DOMAIN cookies : cookies[n].present
    /\ cookies' = [n \in DOMAIN cookies |-> NoCookie]
    /\ devEpoch' = [id |-> Undefined, n |-> 0]
    /\ sessPrev' = [valid |-> FALSE, id |-> Undefined, at |-> now]
    /\ UNCHANGED <<env, now, advances, pageIds, uuids, jitsu, last, calls>>
    /\ UNCHANGED <<backendVars, dimVars>>

(***************************************************************************)
(*                  PART 3: parseSnapshotDimension                         *)
(***************************************************************************)

\* bound: the length of the dimension strings
MaxLen == 5

\* strings are sequences of characters
Chars == {"p", "r", "e", "x", ":", "a"}
Strings(n) == UNION { [1..k -> Chars] : k \in 0..n }

\* String.prototype.substring(from, to) and substring(from), 0 based
substring(str, from, to) ==
    LET lo == IF from < Len(str) THEN from ELSE Len(str)
        hi == IF to < Len(str) THEN to ELSE Len(str)
    IN  SubSeq(str, lo + 1, hi)
substringFrom(str, from) == substring(str, from, Len(str))

\* md5 of a string: a digest no dimension string equals
md5Seq(str) == <<"md5">> \o str

Pre == <<"p", "r", "e", ":">>
Exp == <<"e", "x", "p", ":">>

\* (mutant) the prefix is compared over three characters
parseSnapshotDimension_ShortPrefix(dim) ==
    IF dim = <<>>
    THEN [type |-> "none", id |-> <<>>]
    ELSE IF substring(dim, 0, 3) = SubSeq(Pre, 1, 3)
    THEN [type |-> "predefined", id |-> substringFrom(dim, 4)]
    ELSE IF substring(dim, 0, 3) = SubSeq(Exp, 1, 3)
    THEN [type |-> "experiment", id |-> md5Seq(substringFrom(dim, 4))]
    ELSE [type |-> "user", id |-> md5Seq(dim)]

\* track.ts:299-315
parseSnapshotDimension(dim) ==
    IF dim = <<>>
    THEN [type |-> "none", id |-> <<>>]
    ELSE IF substring(dim, 0, 4) = Pre
    THEN [type |-> "predefined", id |-> substringFrom(dim, 4)]
    ELSE IF substring(dim, 0, 4) = Exp
    THEN [type |-> "experiment", id |-> md5Seq(substringFrom(dim, 4))]
    ELSE [type |-> "user", id |-> md5Seq(dim)]

NotParsed == [type |-> "", id |-> <<>>]

\* the caller's dimension is classified
Parse ==
    /\ parsed = NotParsed
    /\ parsed' = parseSnapshotDimension(dimension)
    /\ UNCHANGED dimension
    /\ UNCHANGED <<backendVars, trackVars>>

(***************************************************************************)
(*                        The specifications                               *)
(***************************************************************************)

InitBackend ==
    /\ experiments = InitExperiments
    /\ datasources \in InitDatasources
    /\ pc = [r \in Requests |-> "idle"]
    /\ req = [r \in Requests |-> NoRequest]
    /\ experiment = [r \in Requests |-> NoExperiment]
    /\ updatedExperiment = [r \in Requests |-> NoExperiment]
    /\ result = [r \in Requests |-> "pending"]
    /\ trace = [r \in Requests |-> <<>>]
    /\ updateCalls = [r \in Requests |-> 0]
    /\ wrote = [r \in Requests |-> FALSE]
    /\ dupAtStart = [r \in Requests |-> FALSE]
    /\ dupAtLookup = [r \in Requests |-> FALSE]
    /\ started = 0


\* the back end at rest, for the specifications of the front end
InitBackendIdle == InitBackend /\ DOMAIN datasources = {"d1", "d2"}

InitTrackIdle ==
    /\ env = [browser |-> TRUE, cloud |-> FALSE, telemetry |-> TRUE,
              warehouse |-> FALSE]
    /\ now = Time(0, 0)
    /\ advances = 0
    /\ cookies = [n \in {DEVICE_ID_COOKIE, SESSION_ID_COOKIE} |-> NoCookie]
    /\ pageIds = [k \in HistoryKeys |-> Undefined]
    /\ uuids = 0
    /\ jitsu = FALSE
    /\ last = NoCall
    /\ calls = 0
    /\ devEpoch = [id |-> Undefined, n |-> 0]
    /\ sessPrev = [valid |-> FALSE, id |-> Undefined, at |-> Time(0, 0)]

\* the cookies an earlier page load has left in the browser
EarlierCookies ==
    [n \in {DEVICE_ID_COOKIE, SESSION_ID_COOKIE} |->
        IF n = DEVICE_ID_COOKIE
        THEN [present |-> TRUE, value |-> "uuid-earlier-device",
              expires |-> Time(DeviceCookieDays - 1, 0)]
        ELSE [present |-> TRUE, value |-> "uuid-earlier-session",
              expires |-> Time(0, 60 * MsPerSecond)]]

\* the page loads in one of the environments ./env can describe, in a
\* browser without cookies or with those of an earlier page load
InitTrack ==
    /\ env \in [browser : BOOLEAN, cloud : BOOLEAN, telemetry : BOOLEAN,
                warehouse : BOOLEAN]
    /\ now = Time(0, 0)
    /\ advances = 0
    /\ cookies \in {[n \in {DEVICE_ID_COOKIE, SESSION_ID_COOKIE} |-> NoCookie],
                    EarlierCookies}
    /\ pageIds = [k \in HistoryKeys |-> Undefined]
    /\ uuids = 0
    /\ jitsu = FALSE
    /\ last = NoCall
    /\ calls = 0
    /\ devEpoch = [id |-> Undefined, n |-> 0]
    /\ sessPrev = [valid |-> FALSE, id |-> Undefined, at |-> Time(0, 0)]

InitDimIdle ==
    /\ dimension = <<>>
    /\ parsed = NotParsed

\* a caller is about to classify some dimension string
InitDim ==
    /\ dimension \in Strings(MaxLen)
    /\ parsed = NotParsed

\* ---- the update handler
Init == InitBackend /\ InitTrackIdle /\ InitDimIdle


Next ==
    \E r \in Requests :
        \/ StartRequest(r)
        \/ GetExperimentById(r)
        \/ EnsureProjectsExist(r)
        \/ GetDataSourceById(r)
        \/ GetExperimentByTrackingKey(r)
        \/ UpdateExperimentToDb(r)
        \/ ToExperimentApiInterface(r)

Spec == Init /\ [][Next]_vars

\* ---- the telemetry service
NextTrack ==
    \/ Track
    \/ Advance
    \/ ClearCookies

InitTrackSpec == InitBackendIdle /\ InitTrack /\ InitDimIdle

SpecTrack == InitTrackSpec /\ [][NextTrack]_vars

\* ---- parseSnapshotDimension
NextDim == Parse

InitDimSpec == InitBackendIdle /\ InitTrackIdle /\ InitDim

SpecDim == InitDimSpec /\ [][NextDim]_vars

(***************************************************************************)
(*                  Properties of updateExperiment                         *)
(***************************************************************************)

Passed(r, name) ==
    \E i \in 1..Len(trace[r]) : trace[r][i] = Check(name, TRUE)

Failed(r) == result[r] \in Errors

\* the request did not touch the collection
NoChange(r) == updateCalls[r] = 0 /\ ~wrote[r]

\* C1 as stated: every request for an existing experiment whose body names
\* a tracking key that another experiment holds ends with the conflict
\* error, without a call of the update operation and without a change.
C1_EveryDuplicateKeyIsAConflict ==
    \A r \in Requests :
        (pc[r] = "done" /\ req[r].id \in ExperimentIds /\ dupAtStart[r])
            => (result[r] = ErrTrackingKey /\ NoChange(r))

\* C1 as amended: a request that passes the earlier checks and looks its
\* tracking key up while another experiment holds that key ends with the
\* conflict error, never calls the update operation and changes nothing.
C1_DuplicateKeyAtLookupIsAConflict ==
    \A r \in Requests :
        dupAtLookup[r]
            => (pc[r] = "done" /\ result[r] = ErrTrackingKey /\ NoChange(r))

C1_Witness ==
    \E r \in Requests :
        /\ dupAtLookup[r] /\ result[r] = ErrTrackingKey
        /\ Passed(r, "assignmentQuery")

\* C2: no two stored experiments share a tracking key, in any reachable
\* state, whatever the interleaving of the requests in flight.
C2_TrackingKeysUnique ==
    \A a, b \in DOMAIN experiments :
        a # b => experiments[a].trackingKey # experiments[b].trackingKey

\* the exposure queries configured on the datasource of stored experiment id
ExposureQueriesOf(id) ==
    LET ds == getDataSourceById(experiments[id].datasource)
    IN  IF ds.hasQueries THEN ds.exposure ELSE {}

\* C3 as stated: every request for an existing experiment with a datasource
\* whose body names an assignment query that is none of the datasource's
\* exposure queries ends with the 'Unrecognized assignment query ID' error,
\* without a call of the update operation and without a change.
C3_EveryUnknownQueryIsRejected ==
    \A r \in Requests :
        (/\ pc[r] = "done"
         /\ req[r].id \in ExperimentIds
         /\ getDataSourceById(experiments[req[r].id].datasource) # NoDatasource
         /\ req[r].body.assignmentQueryId # Null
         /\ req[r].body.assignmentQueryId \notin ExposureQueriesOf(req[r].id))
            => (result[r] = ErrAssignmentQuery /\ NoChange(r))

\* C3 as amended: a request that passes the earlier checks (its datasource
\* was found) and whose body names an assignment query that is neither the
\* one the experiment already has nor one of the datasource's exposure
\* queries ends with the 'Unrecognized assignment query ID' error, never
\* calls the update operation and changes nothing.
C3_ChangedUnknownQueryIsRejected ==
    \A r \in Requests :
        (/\ Passed(r, "datasource")
         /\ req[r].body.assignmentQueryId # Null
         /\ req[r].body.assignmentQueryId # experiment[r].exposureQueryId
         /\ req[r].body.assignmentQueryId \notin ExposureQueriesOf(req[r].id))
            => (pc[r] = "done" /\ result[r] = ErrAssignmentQuery /\ NoChange(r))

C3_Witness ==
    \E r \in Requests :
        /\ result[r] = ErrAssignmentQuery
        /\ Passed(r, "datasource")
        /\ req[r].body.assignmentQueryId \notin ExposureQueriesOf(req[r].id)

\* the order of the checks of a request with this body
ExpectedOrder(body) ==
    <<"experiment">>
    \o (IF body.project # Null THEN <<"project">> ELSE <<>>)
    \o <<"permission", "datasource", "assignmentQuery", "trackingKey", "update">>

ErrorOf(name) ==
    CASE name = "experiment" -> ErrNoExperiment
      [] name = "project" -> ErrNoProject
      [] name = "permission" -> ErrPermission
      [] name = "datasource" -> ErrNoDatasource
      [] name = "assignmentQuery" -> ErrAssignmentQuery
      [] name = "trackingKey" -> ErrTrackingKey
      [] name = "update" -> ErrUpdate

\* C9: the checks run in the fixed order experiment, project (if supplied),
\* permission, datasource, assignment query, tracking key; the request ends
\* with the error of the first check that fails and nothing runs after it;
\* the update operation is called at most once and only after every check
\* has passed; a failed request has not changed the collection.
C9_ChecksInOrderThenOneUpdate ==
    \A r \in Requests :
        LET tr == trace[r]
            ord == ExpectedOrder(req[r].body)
            n == Len(tr)
        IN  /\ n <= Len(ord)
            /\ \A i \in 1..n : tr[i].check = ord[i]
            /\ \A i \in 1..(n - 1) : tr[i].ok
            /\ Failed(r) <=> (n >= 1 /\ ~tr[n].ok)
            /\ Failed(r) => (pc[r] = "done" /\ result[r] = ErrorOf(tr[n].check))
            /\ updateCalls[r] <= 1
            /\ updateCalls[r] = 1 <=> (n = Len(ord))
            /\ wrote[r] => (updateCalls[r] = 1 /\ tr[n].ok)
            /\ Failed(r) => ~wrote[r]

C9_Witness ==
    \E r, q \in Requests :
        /\ result[r] = ErrTrackingKey /\ req[r].body.project # Null
        /\ result[q] = "ok" /\ wrote[q] /\ updateCalls[q] = 1

(***************************************************************************)
(*                  Properties of the telemetry service                    *)
(***************************************************************************)

Called == last.outcome # "none"

\* C4: with telemetry disabled a call of track reaches no collector:
\* nothing is POSTed to the warehouse and jitsu.track is not called,
\* whatever the rest of the environment.
C4_DisabledTelemetrySendsNothing ==
    ~env.telemetry => (~last.posted /\ ~last.jitsuCalled)

\* the identifiers of the user of the last call, as they are (not hashed)
RawIds == {last.user.id, last.user.org} \ {Undefined}
ValuesOf(obj) == {obj[k] : k \in DOMAIN obj}

\* C5: outside the managed cloud no payload of track carries the user's id
\* or organization id un-hashed: neither a field of the warehouse event,
\* nor its properties_json, nor the props given to jitsu.
C5_RawIdsOnlyOnCloud ==
    (Called /\ ~env.cloud) =>
        /\ last.jitsuCalled => ValuesOf(last.jitsuProps) \cap RawIds = {}
        /\ last.posted =>
            /\ \A k \in DOMAIN last.post \ {"properties_json"} :
                    last.post[k] \notin RawIds
            /\ ValuesOf(last.post.properties_json) \cap RawIds = {}

\* C6: a call returns the id of the device cookie when the browser has one,
\* generates an id only when it has none, leaves the returned id in the
\* cookie, and returns what the first call returned for as long as the
\* cookie has neither expired nor been cleared.
C6_DeviceIdIdempotent ==
    [][(calls' # calls /\ env.browser) =>
        LET before == CookiesGet(cookies, DEVICE_ID_COOKIE, now)
        IN  /\ before # Undefined =>
                    (last'.device_id = before /\ ~last'.genDevice)
            /\ last'.genDevice => before = Undefined
            /\ CookiesGet(cookies', DEVICE_ID_COOKIE, now') = last'.device_id
            /\ devEpoch.n > 0 => last'.device_id = devEpoch.id]_vars

C6_Witness ==
    /\ devEpoch.n >= 2 /\ advances >= 1
    /\ last.device_id = devEpoch.id /\ ~last.genDevice
    /\ cookies[DEVICE_ID_COOKIE].value = last.device_id

\* C8: a call of track in a browser returns normally whatever becomes of
\* the warehouse POST, and with telemetry enabled jitsu gets the same
\* event and props as the warehouse.
C8_TrackNeverThrows ==
    (Called /\ env.browser) =>
        /\ last.outcome = "returned"
        /\ env.telemetry =>
            /\ last.jitsuCalled
            /\ last.jitsuEvent = last.event
            /\ last.posted =>
                /\ last.post.event_name = last.jitsuEvent
                /\ last.post.properties_json = JSONstringify(last.jitsuProps)

C8_Witness ==
    /\ env.browser /\ env.telemetry /\ env.warehouse
    /\ last.fetch = "throws" /\ last.outcome = "returned"
    /\ last.jitsuCalled /\ ~last.posted

\* b is less than ms milliseconds after a
Within(a, b, ms) == TimeLT(b, AddMs(a, ms))

\* C10: a call returns the id of the unexpired session cookie if there is
\* one and a new id otherwise, and a call made less than 30 minutes after
\* the previous one returns the id the previous one returned.
C10_RollingThirtyMinuteSession ==
    [][(calls' # calls /\ env.browser) =>
        LET before == CookiesGet(cookies, SESSION_ID_COOKIE, now)
        IN  /\ before # Undefined =>
                    (last'.session_id = before /\ ~last'.genSession)
            /\ before = Undefined => last'.genSession
            /\ (sessPrev.valid
                /\ Within(sessPrev.at, now, SessionMinutes * 60 * MsPerSecond))
                    => last'.session_id = sessPrev.id]_vars

(***************************************************************************)
(*                  Properties of parseSnapshotDimension                   *)
(***************************************************************************)

StartsWith(str, prefix) ==
    /\ Len(str) >= Len(prefix)
    /\ \A i \in 1..Len(prefix) : str[i] = prefix[i]

\* what is left of a string after its first n characters
Remainder(str, n) == [i \in 1..(Len(str) - n) |-> str[i + n]]

\* C7: "" is "none" with id ""; pre:<x> is "predefined" with id x; exp:<x>
\* is "experiment" with id md5(x); anything else is "user" with the md5 of
\* the whole string; exactly one of the four cases applies.
C7_PrefixClassifier ==
    parsed # NotParsed =>
        /\ dimension = <<>> => parsed = [type |-> "none", id |-> <<>>]
        /\ StartsWith(dimension, Pre) =>
                parsed = [type |-> "predefined", id |-> Remainder(dimension, 4)]
        /\ StartsWith(dimension, Exp) =>
                parsed = [type |-> "experiment",
                          id |-> md5Seq(Remainder(dimension, 4))]
        /\ (dimension # <<>> /\ ~StartsWith(dimension, Pre)
                             /\ ~StartsWith(dimension, Exp)) =>
                parsed = [type |-> "user", id |-> md5Seq(dimension)]
        /\ Cardinality({c \in {"none", "pre", "exp", "user"} :
                \/ c = "none" /\ dimension = <<>>
                \/ c = "pre" /\ StartsWith(dimension, Pre)
                \/ c = "exp" /\ StartsWith(dimension, Exp)
                \/ c = "user" /\ dimension # <<>>
                              /\ ~StartsWith(dimension, Pre)
                              /\ ~StartsWith(dimension, Exp)}) = 1

C7_Witness ==
    /\ dimension = <<"e", "x", "p", ":", "a">>
    /\ parsed = [type |-> "experiment", id |-> <<"md5", "a">>]

====
